---------------------------- MODULE Spec2Model ----------------------------
(***************************************************************************)
(* A model of package val (github.com/kaudit/val): the process-wide        *)
(* validator facade (RegisterValidation, ValidateWithTag, ValidateStruct), *)
(* its error formatting, and the three custom predicates it registers.     *)
(*                                                                         *)
(* Strings are sequences.  A field-selector string is a sequence of        *)
(* lexemes: the characters the code and the selector grammar look at       *)
(* (",", "=", "!", "\\", " ") are one lexeme each, and every maximal run   *)
(* of other characters ("metadata.name", "default") is one lexeme.  A URL  *)
(* string is a sequence of one-character strings.                          *)
(***************************************************************************)
EXTENDS Naturals, Sequences, FiniteSets, TLC

VARIABLES
    fsValue,      \* the string handed to the k8s_field_selector predicate
    fsDone,       \* whether the predicate has run on fsValue
    fsResult,     \* the predicate's result, once fsDone
    urlValue,     \* the string handed to ValidateWithTag(_, "url_prefix")
    urlDone,      \* whether that call has returned
    urlResult,    \* what the url_prefix predicate returned in that call
    urlRet,       \* the error that call returned
    vIn,          \* the arguments of a ValidateStruct or ValidateWithTag call
    vDone,        \* whether that call has returned
    vEngine,      \* what the rule engine returned to it (NotInvoked if not called)
    vRet,         \* the error the call returned
    validations,  \* the engine's registry v.validations: tag -> predicate
    tagCache,     \* the engine's cache of parsed tags: tag -> resolved predicate
    mtx,          \* the holder of the package mutex mtx, or NoHolder
    pc,           \* where each goroutine is in its call
    call,         \* the call each goroutine is making, or last made
    ret,          \* what each goroutine's last call returned
    engineRet,    \* what the engine returned to each goroutine's last call
    fnSeen,       \* the predicate a validating goroutine has resolved
    snap,         \* the registry a registering goroutine started its write from
    raced,        \* whether a goroutine's registry read overlapped a write
    registered,   \* history: per tag, the predicate of the last accepted registration,
                  \* in the order the calls took mtx
    crashed       \* the runtime killed the process (fatal map access error)

fsVars == <<fsValue, fsDone, fsResult>>

urlVars == <<urlValue, urlDone, urlResult, urlRet>>

vVars == <<vIn, vDone, vEngine, vRet>>

regVars == <<validations, tagCache, mtx, pc, call, ret, engineRet, fnSeen, snap, raced,
             registered, crashed>>

vars == <<fsVars, urlVars, vVars, regVars>>

-----------------------------------------------------------------------------
(* Bounds of the model. *)

\* longest field-selector string drawn from the whole lexeme alphabet
MaxLen == 5

\* longest text appended to a (possibly damaged) URL scheme prefix
MaxSuffix == 2

\* most fields of a validated struct, and most rules in one validate tag
MaxFields == 2

MaxRules == 2

\* goroutines calling the package concurrently
NumGoroutines == 2

-----------------------------------------------------------------------------
(* Package strings, on sequences. *)

HasPrefix(s, prefix) ==
    /\ Len(s) >= Len(prefix)
    /\ SubSeq(s, 1, Len(prefix)) = prefix

\* strings.Index, 1-based; 0 when substr does not occur
Index(s, substr) ==
    LET hits == { i \in 1..(Len(s) + 1) :
                    /\ i + Len(substr) - 1 <= Len(s)
                    /\ SubSeq(s, i, i + Len(substr) - 1) = substr }
    IN  IF hits = {} THEN 0 ELSE CHOOSE i \in hits : \A j \in hits : i <= j

Contains(s, substr) == Index(s, substr) # 0

RECURSIVE TrimLeft(_)
TrimLeft(s) ==
    IF s # <<>> /\ Head(s) = " " THEN TrimLeft(Tail(s)) ELSE s

RECURSIVE TrimRight(_)
TrimRight(s) ==
    IF s # <<>> /\ s[Len(s)] = " " THEN TrimRight(SubSeq(s, 1, Len(s) - 1)) ELSE s

TrimSpace(s) == TrimRight(TrimLeft(s))

\* strings.Split(s, sep) for a one-lexeme separator: Split("", ",") is [""]
RECURSIVE Split(_, _)
Split(s, sep) ==
    LET i == Index(s, <<sep>>)
    IN  IF i = 0 THEN <<s>>
        ELSE <<SubSeq(s, 1, i - 1)>> \o Split(SubSeq(s, i + 1, Len(s)), sep)

\* strings.SplitN(s, sep, 2)[0]: the text before the first sep, s when absent
SplitN2First(s, sep) ==
    LET i == Index(s, sep)
    IN  IF i = 0 THEN s ELSE SubSeq(s, 1, i - 1)

-----------------------------------------------------------------------------
(* Errors.  A message is a sequence of pieces; a piece is a literal text   *)
(* or a format with its arguments.                                         *)

Lit(t) == [text |-> t, args |-> <<>>]

Fmt(t, a) == [text |-> t, args |-> a]

NilErr == [type |-> "nil", errs |-> <<>>, msg |-> <<>>]

\* the engine was not called
NotInvoked == [type |-> "notInvoked", errs |-> <<>>, msg |-> <<>>]

\* errors.New / fmt.Errorf without %w
ErrorString(msg) == [type |-> "errorString", errs |-> <<>>, msg |-> msg]

\* fmt.Errorf("...%w", err): the message is the text followed by err.Error()
WrapError(prefix, err) ==
    [type |-> "wrapError", errs |-> <<>>, msg |-> <<Lit(prefix)>> \o err.msg]

\* validator.ValidationErrors: the engine's list of field errors
ValidationErrors(errs) == [type |-> "ValidationErrors", errs |-> errs, msg |-> <<>>]

\* *validator.InvalidValidationError; Error() is "validator: (nil <type>)"
InvalidValidationError(typ) ==
    [type |-> "InvalidValidationError", errs |-> <<>>,
     msg |-> <<Fmt("validator: (nil %s)", <<typ>>)>>]

\* strings.Join
RECURSIVE Join(_, _)
Join(elems, sep) ==
    IF Len(elems) = 0 THEN <<>>
    ELSE IF Len(elems) = 1 THEN <<elems[1]>>
    ELSE <<elems[1], sep>> \o Join(Tail(elems), sep)

-----------------------------------------------------------------------------
(* handleValidatorError *)

\* the three branches of the loop body
DetailedError(fe) ==
    IF fe.structField # ""
    THEN Fmt("%s (%s=%s)", <<fe.ns, fe.actualTag, fe.param>>)
    ELSE IF fe.valueIsNil
    THEN Fmt("nil value (%s=%s)", <<fe.actualTag, fe.param>>)
    ELSE Fmt("%s %s (%s=%s)", <<fe.typ, fe.value, fe.actualTag, fe.param>>)

RECURSIVE DetailedErrors(_, _)
DetailedErrors(valErr, i) ==
    IF i > Len(valErr) THEN <<>>
    ELSE <<DetailedError(valErr[i])>> \o DetailedErrors(valErr, i + 1)

handleValidatorErrorFirstOnly(err) ==
    IF err.type = "ValidationErrors"
    THEN ErrorString(<<Lit("validation failed: ")>>
                       \o Join(DetailedErrors(SubSeq(err.errs, 1, 1), 1), Lit(", ")))
    ELSE WrapError("unexpected validation error: ", err)

handleValidatorErrorSwallowUnexpected(err) ==
    IF err.type = "ValidationErrors"
    THEN ErrorString(<<Lit("validation failed: ")>>
                       \o Join(DetailedErrors(err.errs, 1), Lit(", ")))
    ELSE NilErr

handleValidatorError(err) ==
    IF err.type = "ValidationErrors"
    THEN ErrorString(<<Lit("validation failed: ")>>
                       \o Join(DetailedErrors(err.errs, 1), Lit(", ")))
    ELSE WrapError("unexpected validation error: ", err)

-----------------------------------------------------------------------------
(* validateInputStruct.  An input s is a record: untypedNil (s == nil),    *)
(* kind (reflect.ValueOf(s).Kind()), ptrIsNil (IsNil() of a pointer),      *)
(* elemKind (the kind a pointer points to), name and fields of the struct. *)

validateInputStructNoPointerCheck(s) ==
    IF s.untypedNil THEN ErrorString(<<Lit("input is nil")>>)
    ELSE NilErr

validateInputStruct(s) ==
    IF s.untypedNil THEN ErrorString(<<Lit("input is nil")>>)
    ELSE IF s.kind = "ptr" /\ s.ptrIsNil
    THEN ErrorString(<<Lit("input is a nil pointer")>>)
    ELSE NilErr

-----------------------------------------------------------------------------
(* The rule engine (go-playground/validator v10) as the facade calls it.   *)
(* A validate tag is a sequence of rules [tag, param, ok], ok telling      *)
(* whether the value satisfies the rule.  The engine walks the fields in   *)
(* declaration order and each field's rules in tag order, and reports the  *)
(* first rule a field fails; a nil bare value fails its first rule         *)
(* without the rule being run.                                             *)

FieldError(structField, ns, rule, typ, value, valueIsNil) ==
    [structField |-> structField, ns |-> ns, actualTag |-> rule.tag,
     param |-> rule.param, typ |-> typ, value |-> value,
     valueIsNil |-> valueIsNil]

\* the index of the first rule that fails, 0 when all pass
FirstFailing(rules) ==
    LET failing == { j \in 1..Len(rules) : ~rules[j].ok }
    IN  IF failing = {} THEN 0 ELSE CHOOSE j \in failing : \A k \in failing : j <= k

\* reflect.TypeOf(s).String()
TypeString(s) ==
    IF s.kind = "ptr"
    THEN IF s.elemKind = "struct" THEN "*" \o s.name ELSE "*int"
    ELSE IF s.kind = "struct" THEN s.name ELSE "int"

RECURSIVE StructFieldErrors(_, _)
StructFieldErrors(s, i) ==
    IF i > Len(s.fields) THEN <<>>
    ELSE LET f == s.fields[i]
             j == FirstFailing(f.rules)
             here == IF j = 0 THEN <<>>
                     ELSE <<FieldError(f.name, s.name \o "." \o f.name,
                                       f.rules[j], f.typ, f.value, FALSE)>>
         IN  here \o StructFieldErrors(s, i + 1)

\* v.Struct(s)
EngineStruct(s) ==
    LET isStruct == \/ s.kind = "struct"
                    \/ s.kind = "ptr" /\ ~s.ptrIsNil /\ s.elemKind = "struct"
    IN  IF ~isStruct THEN InvalidValidationError(TypeString(s))
        ELSE LET errs == StructFieldErrors(s, 1)
             IN  IF Len(errs) > 0 THEN ValidationErrors(errs) ELSE NilErr

\* v.Var(variable, tag)
EngineVar(variable, rules) ==
    IF Len(rules) = 0 THEN NilErr
    ELSE IF variable.isNil
    THEN ValidationErrors(<<FieldError("", "", rules[1], "", "", TRUE)>>)
    ELSE LET j == FirstFailing(rules)
         IN  IF j = 0 THEN NilErr
             ELSE ValidationErrors(<<FieldError("", "", rules[j], variable.typ,
                                                variable.value, FALSE)>>)

-----------------------------------------------------------------------------
(* The facade's validation calls: [engine, ret], engine being what the     *)
(* rule engine returned and ret what the facade returns.                   *)

ValidateStruct(s) ==
    LET guard == validateInputStruct(s)
    IN  IF guard.type # "nil" THEN [engine |-> NotInvoked, ret |-> guard]
        ELSE LET err == EngineStruct(s)
             IN  [engine |-> err,
                  ret |-> IF err.type # "nil" THEN handleValidatorError(err)
                          ELSE NilErr]

ValidateWithTag(variable, rules) ==
    LET err == EngineVar(variable, rules)
    IN  [engine |-> err,
         ret |-> IF err.type # "nil" THEN handleValidatorError(err) ELSE NilErr]

-----------------------------------------------------------------------------
(* The url_prefix predicate. *)

HttpPrefix == <<"h", "t", "t", "p", ":", "/", "/">>

HttpsPrefix == <<"h", "t", "t", "p", "s", ":", "/", "/">>

urlPrefixFnHttpsOnly(value) == HasPrefix(value, HttpsPrefix)

urlPrefixFn(value) == HasPrefix(value, HttpPrefix) \/ HasPrefix(value, HttpsPrefix)

-----------------------------------------------------------------------------
(* fields.ParseSelector of k8s.io/apimachinery/pkg/fields, which the       *)
(* predicate calls for its syntax pre-check: splitTerms cuts the string at *)
(* every comma that no backslash escapes, empty terms are skipped,         *)
(* splitTerm cuts a term at the first "!=", "==" or "=", and UnescapeValue *)
(* rejects a value holding an unescaped "," or "=" or a bad escape.        *)

termOperators == << <<"!", "=">>, <<"=", "=">>, <<"=">> >>

RECURSIVE splitTermsFrom(_, _, _, _)
splitTermsFrom(s, i, startIndex, inSlash) ==
    IF i > Len(s) THEN <<SubSeq(s, startIndex, Len(s))>>
    ELSE IF inSlash THEN splitTermsFrom(s, i + 1, startIndex, FALSE)
    ELSE IF s[i] = "\\" THEN splitTermsFrom(s, i + 1, startIndex, TRUE)
    ELSE IF s[i] = ","
         THEN <<SubSeq(s, startIndex, i - 1)>> \o splitTermsFrom(s, i + 1, i + 1, FALSE)
    ELSE splitTermsFrom(s, i + 1, startIndex, FALSE)

splitTerms(s) == IF Len(s) = 0 THEN <<>> ELSE splitTermsFrom(s, 1, 1, FALSE)

\* the first position at which one of termOperators starts, and the first
\* of them (in termOperators order) that starts there
splitTerm(term) ==
    LET starts(i) == { k \in 1..Len(termOperators) :
                         HasPrefix(SubSeq(term, i, Len(term)), termOperators[k]) }
        at == { i \in 1..Len(term) : starts(i) # {} }
    IN  IF at = {} THEN [ok |-> FALSE, lhs |-> <<>>, op |-> <<>>, rhs |-> <<>>]
        ELSE LET i  == CHOOSE a \in at : \A b \in at : a <= b
                 k  == CHOOSE a \in starts(i) : \A b \in starts(i) : a <= b
                 op == termOperators[k]
             IN  [ok  |-> TRUE,
                  lhs |-> SubSeq(term, 1, i - 1),
                  op  |-> op,
                  rhs |-> SubSeq(term, i + Len(op), Len(term))]

RECURSIVE UnescapeFrom(_, _, _)
UnescapeFrom(s, i, inSlash) ==
    IF i > Len(s) THEN ~inSlash
    ELSE IF inSlash THEN s[i] \in {"\\", ",", "="} /\ UnescapeFrom(s, i + 1, FALSE)
    ELSE IF s[i] = "\\" THEN UnescapeFrom(s, i + 1, TRUE)
    ELSE IF s[i] \in {",", "="} THEN FALSE
    ELSE UnescapeFrom(s, i + 1, FALSE)

\* TRUE iff fields.UnescapeValue(s) returns no error
UnescapeValueOk(s) == UnescapeFrom(s, 1, FALSE)

\* [ok, items]: ok iff ParseSelector returns no error; items are the parsed
\* requirements (the library sorts the terms first, which changes the order
\* of items only)
ParseSelector(selector) ==
    LET parts == splitTerms(selector)
        live  == { i \in 1..Len(parts) : parts[i] # <<>> }
        good(i) == /\ splitTerm(parts[i]).ok
                   /\ UnescapeValueOk(splitTerm(parts[i]).rhs)
    IN  [ok    |-> \A i \in live : good(i),
         items |-> { splitTerm(parts[i]) : i \in live }]

-----------------------------------------------------------------------------
(* The k8s_field_selector predicate. *)

allowedFieldKeys ==
    { "metadata.name", "metadata.namespace", "status.phase", "spec.nodeName",
      "spec.unschedulable", "status.hostIP", "status.podIP" }

\* the switch of the loop body: [ok, key]; ok is FALSE in the default case
RequirementKeyNoInequality(r) ==
    IF Contains(r, <<"=">>)
    THEN [ok |-> TRUE, key |-> SplitN2First(r, <<"=">>)]
    ELSE [ok |-> FALSE, key |-> <<>>]

RequirementKey(r) ==
    IF Contains(r, <<"!", "=">>)
    THEN [ok |-> TRUE, key |-> SplitN2First(r, <<"!", "=">>)]
    ELSE IF Contains(r, <<"=">>)
    THEN [ok |-> TRUE, key |-> SplitN2First(r, <<"=">>)]
    ELSE [ok |-> FALSE, key |-> <<>>]

\* a key is in the map iff it is one lexeme and that lexeme is a map key
KeyAllowed(key) == Len(key) = 1 /\ key[1] \in allowedFieldKeys

\* the loop with the default case skipping the segment
RECURSIVE CheckRequirementsSkipNoOperator(_, _)
CheckRequirementsSkipNoOperator(requirements, i) ==
    IF i > Len(requirements) THEN TRUE
    ELSE LET r == TrimSpace(requirements[i])
             k == RequirementKey(r)
         IN  IF ~k.ok THEN CheckRequirementsSkipNoOperator(requirements, i + 1)
             ELSE IF ~KeyAllowed(TrimSpace(k.key)) THEN FALSE
             ELSE CheckRequirementsSkipNoOperator(requirements, i + 1)

\* the loop over the raw comma split, returning false at the first bad one
RECURSIVE CheckRequirements(_, _)
CheckRequirements(requirements, i) ==
    IF i > Len(requirements) THEN TRUE
    ELSE LET r == TrimSpace(requirements[i])
             k == RequirementKey(r)
         IN  IF ~k.ok THEN FALSE
             ELSE IF ~KeyAllowed(TrimSpace(k.key)) THEN FALSE
             ELSE CheckRequirements(requirements, i + 1)

fieldSelectorFn(value) ==
    IF value = <<>> THEN FALSE
    ELSE IF ~ParseSelector(value).ok THEN FALSE
    ELSE CheckRequirements(Split(value, ","), 1)

-----------------------------------------------------------------------------
(* Inputs of the field-selector predicate. *)

Specials == {",", "=", "!", "\\", " "}

\* an allowed key, a key only the README lists, and a key nobody lists
Words == {"metadata.name", "spec.type", "spec.replicas"}

Lexemes == Specials \cup Words

\* two adjacent words would be one longer word
IsLexed(s) == \A i \in 1..(Len(s) - 1) : ~(s[i] \in Words /\ s[i + 1] \in Words)

RECURSIVE SeqsUpTo(_, _)
SeqsUpTo(S, n) ==
    IF n = 0 THEN {<<>>}
    ELSE LET shorter == SeqsUpTo(S, n - 1)
         IN  shorter \cup { Append(s, x) : s \in shorter, x \in S }

\* every string of at most n lexemes
LexemeStrings(n) == { s \in SeqsUpTo(Lexemes, n) : IsLexed(s) }

\* the keys of the code's map, the one more the README lists, and others
AllKeys == allowedFieldKeys \cup {"spec.type", "spec.replicas", "metadata.uid"}

Operators == { <<"=">>, <<"=", "=">>, <<"!", "=">> }

OneRequirement == { <<k>> \o op \o <<v>> :
                      k \in AllKeys, op \in Operators, v \in {"default"} }

RequirementStrings ==
    OneRequirement
      \cup { a \o <<",">> \o b : a \in OneRequirement, b \in OneRequirement }

-----------------------------------------------------------------------------
(* Inputs of ValidateWithTag(_, "url_prefix"): the two scheme prefixes,    *)
(* cut short at any length, with any one character replaced, followed by   *)
(* any short text.                                                         *)

UrlChars == {"h", "t", "p", "s", ":", "/", "x"}

Damage(s, i, c) == IF i = 0 THEN s ELSE [s EXCEPT ![i] = c]

UrlHeads ==
    UNION { UNION { { Damage(SubSeq(base, 1, n), i, c) : i \in 0..n, c \in UrlChars }
                    : n \in 0..Len(base) }
            : base \in {HttpPrefix, HttpsPrefix} }

UrlStrings(n) == { head \o suffix : head \in UrlHeads, suffix \in SeqsUpTo(UrlChars, n) }

-----------------------------------------------------------------------------
(* Inputs of ValidateStruct and ValidateWithTag. *)

TagNames == <<"required", "gt", "lt", "oneof">>

TagParams == <<"", "1024", "65536", "debug info warn error">>

FieldNames == <<"Field1", "Field2", "Field3", "Field4">>

RuleAt(j, ok) == [tag |-> TagNames[j], param |-> TagParams[j], ok |-> ok]

\* every validate tag of up to MaxRules rules, each satisfied or not
RuleLists ==
    UNION { { [j \in 1..k |-> RuleAt(j, b[j])] : b \in [1..k -> BOOLEAN] }
            : k \in 0..MaxRules }

FieldAt(i, rules) ==
    [name |-> FieldNames[i], typ |-> "int64", value |-> "0", rules |-> rules]

FieldLists ==
    UNION { { [i \in 1..n |-> FieldAt(i, rl[i])] : rl \in [1..n -> RuleLists] }
            : n \in 0..MaxFields }

UntypedNil ==
    [untypedNil |-> TRUE, kind |-> "invalid", ptrIsNil |-> FALSE,
     elemKind |-> "none", name |-> "", fields |-> <<>>]

StructValue(fields) ==
    [untypedNil |-> FALSE, kind |-> "struct", ptrIsNil |-> FALSE,
     elemKind |-> "none", name |-> "TestStruct", fields |-> fields]

Pointer(elemKind, isNil, fields) ==
    [untypedNil |-> FALSE, kind |-> "ptr", ptrIsNil |-> isNil,
     elemKind |-> elemKind, name |-> IF elemKind = "struct" THEN "TestStruct" ELSE "",
     fields |-> fields]

IntValue ==
    [untypedNil |-> FALSE, kind |-> "int", ptrIsNil |-> FALSE,
     elemKind |-> "none", name |-> "", fields |-> <<>>]

StructInputs ==
    {UntypedNil, IntValue, Pointer("int", TRUE, <<>>), Pointer("int", FALSE, <<>>),
     Pointer("struct", TRUE, <<>>)}
      \cup { StructValue(fl) : fl \in FieldLists }
      \cup { Pointer("struct", FALSE, fl) : fl \in FieldLists }

\* a bare value handed to ValidateWithTag: nil, or the string "qwe"
Variables ==
    { [isNil |-> TRUE, typ |-> "", value |-> ""],
      [isNil |-> FALSE, typ |-> "string", value |-> "qwe"] }

NoVariable == [isNil |-> TRUE, typ |-> "", value |-> ""]

ValidateInputs ==
    { [op |-> "ValidateStruct", s |-> s, variable |-> NoVariable, rules |-> <<>>]
        : s \in StructInputs }
      \cup { [op |-> "ValidateWithTag", s |-> UntypedNil, variable |-> x, rules |-> r]
               : x \in Variables, r \in RuleLists }

-----------------------------------------------------------------------------
(* The shared validator v and the mutex mtx.                               *)
(*                                                                         *)
(* v.RegisterValidation checks its arguments and then assigns to the map   *)
(* v.validations, taking no lock of its own.  v.Var looks the tag up in    *)
(* the engine's tag cache; on a miss it parses the tag under the cache's   *)
(* lock, reading the predicate from v.validations, and stores the parsed   *)
(* tag (with the predicate it found) in the cache.  A Go map assignment is *)
(* not atomic: it is modelled as a write that starts from the map as read  *)
(* at its beginning, and a read that overlaps a write may see the old or   *)
(* the new entry or end the process with the runtime's fatal error.        *)

Goroutines == 1..NumGoroutines

NoHolder == 0

NoFn == "absent"

NilFn == "nil"

UserTags == {"is-even", "is-odd"}

BuiltinTags == {"url_prefix", "k8s_label_selector", "k8s_field_selector"}

RegistryTags == BuiltinTags \cup UserTags

\* the tags callers pass to RegisterValidation: a user tag or the empty name
RegisterTags == UserTags \cup {""}

UserFns == {"isEven", "isOdd"}

IntValues == {1, 2}

\* fn(fl) for the predicates callers register
Apply(fn, x) == IF fn = "isEven" THEN x % 2 = 0 ELSE x % 2 = 1

\* newValidator: the three custom predicates are registered at init
newValidator ==
    [t \in RegistryTags |->
        IF t = "url_prefix" THEN "urlPrefix"
        ELSE IF t = "k8s_label_selector" THEN "labelSelector"
        ELSE IF t = "k8s_field_selector" THEN "fieldSelector"
        ELSE NoFn]

\* tag names the engine keeps for itself
RestrictedTags == {"dive"}

\* the engine panics when a caller registers one of its own tag names
RestrictedTagPanic(tag) ==
    [type |-> "panic", errs |-> <<>>,
     msg |-> <<Fmt("Tag '%s' either contains restricted characters or is the same as a restricted tag needed for normal operation", <<tag>>)>>]

\* the argument checks of v.RegisterValidation, before it touches the map
RegisterCheck(tag, fn) ==
    IF tag = "" THEN ErrorString(<<Lit("function Key cannot be empty")>>)
    ELSE IF fn = NilFn THEN ErrorString(<<Lit("function cannot be empty")>>)
    ELSE IF tag \in RestrictedTags THEN RestrictedTagPanic(tag)
    ELSE NilErr

\* what RegisterValidation returns, given what v.RegisterValidation returned
RegisterReturnWrapped(err) ==
    IF err.type = "nil" THEN NilErr ELSE WrapError("registration failed: ", err)

RegisterReturn(err) == err

\* the engine panics on a tag nobody registered
Panic == [type |-> "panic", errs |-> <<>>, msg |-> <<Lit("Undefined validation function")>>]

NoCall == [op |-> "none", tag |-> "", fn |-> NilFn, x |-> 0]

RegisterCall(tag, fn) == [op |-> "RegisterValidation", tag |-> tag, fn |-> fn, x |-> 0]

ValidateCall(x, tag) == [op |-> "ValidateWithTag", tag |-> tag, fn |-> NilFn, x |-> x]

\* ValidateWithTag(x, tag) once the engine resolved tag to fn
ValidateResolved(x, tag, fn) ==
    ValidateWithTag([isNil |-> FALSE, typ |-> "int", value |-> x],
                    <<[tag |-> tag, param |-> "", ok |-> Apply(fn, x)]>>).ret

RegIdle ==
    /\ validations = newValidator
    /\ tagCache = [t \in RegistryTags |-> NoFn]
    /\ mtx = NoHolder
    /\ pc = [g \in Goroutines |-> "idle"]
    /\ call = [g \in Goroutines |-> NoCall]
    /\ ret = [g \in Goroutines |-> NilErr]
    /\ engineRet = [g \in Goroutines |-> NotInvoked]
    /\ fnSeen = [g \in Goroutines |-> NoFn]
    /\ snap = [g \in Goroutines |-> newValidator]
    /\ raced = [g \in Goroutines |-> FALSE]
    /\ registered = [t \in RegistryTags |-> NoFn]
    /\ crashed = FALSE

Others == <<fsVars, urlVars, vVars>>

-----------------------------------------------------------------------------
(* The specifications.  Each draws the inputs of the calls it is about and *)
(* leaves the other variables at rest.                                     *)

FSIdle == fsValue = <<>> /\ fsDone = FALSE /\ fsResult = FALSE

UrlIdle == urlValue = <<>> /\ urlDone = FALSE /\ urlResult = FALSE /\ urlRet = NilErr

VIdle ==
    /\ vIn = [op |-> "none", s |-> UntypedNil, variable |-> NoVariable, rules |-> <<>>]
    /\ vDone = FALSE
    /\ vEngine = NotInvoked
    /\ vRet = NilErr

FSInit ==
    /\ fsValue \in LexemeStrings(MaxLen) \cup RequirementStrings
    /\ fsDone = FALSE
    /\ fsResult = FALSE
    /\ UrlIdle
    /\ VIdle
    /\ RegIdle

\* the rule engine calls the predicate on the field's string
FieldSelectorValidate ==
    /\ ~fsDone
    /\ fsDone' = TRUE
    /\ fsResult' = fieldSelectorFn(fsValue)
    /\ UNCHANGED <<fsValue, urlVars, vVars, regVars>>

NextFS == FieldSelectorValidate

SpecFS == FSInit /\ [][NextFS]_vars

UrlInit ==
    /\ urlValue \in UrlStrings(MaxSuffix)
    /\ urlDone = FALSE
    /\ urlResult = FALSE
    /\ urlRet = NilErr
    /\ FSIdle
    /\ VIdle
    /\ RegIdle

\* ValidateWithTag(urlValue, "url_prefix"): the engine runs the predicate
\* registered for the tag on the value
UrlValidate ==
    /\ ~urlDone
    /\ urlDone' = TRUE
    /\ LET ok == urlPrefixFn(urlValue)
           r  == ValidateWithTag([isNil |-> FALSE, typ |-> "string", value |-> urlValue],
                                 <<[tag |-> "url_prefix", param |-> "", ok |-> ok]>>)
       IN  /\ urlResult' = ok
           /\ urlRet' = r.ret
    /\ UNCHANGED <<urlValue, fsVars, vVars, regVars>>

NextUrl == UrlValidate

SpecUrl == UrlInit /\ [][NextUrl]_vars

VInit ==
    /\ vIn \in ValidateInputs
    /\ vDone = FALSE
    /\ vEngine = NotInvoked
    /\ vRet = NilErr
    /\ FSIdle
    /\ UrlIdle
    /\ RegIdle

ValidateStructCall ==
    /\ ~vDone
    /\ vIn.op = "ValidateStruct"
    /\ vDone' = TRUE
    /\ LET r == ValidateStruct(vIn.s)
       IN  vEngine' = r.engine /\ vRet' = r.ret
    /\ UNCHANGED <<vIn, fsVars, urlVars, regVars>>

ValidateWithTagCall ==
    /\ ~vDone
    /\ vIn.op = "ValidateWithTag"
    /\ vDone' = TRUE
    /\ LET r == ValidateWithTag(vIn.variable, vIn.rules)
       IN  vEngine' = r.engine /\ vRet' = r.ret
    /\ UNCHANGED <<vIn, fsVars, urlVars, regVars>>

NextValidate == ValidateStructCall \/ ValidateWithTagCall

SpecValidate == VInit /\ [][NextValidate]_vars

-----------------------------------------------------------------------------
(* The field-selector contract, stated on the grammar's own requirements. *)

\* (a) the string parses under the field-selector grammar
Parses(s) == ParseSelector(s).ok

\* (b) every requirement's key, surrounding whitespace aside, is allowed
KeysAllowed(s) ==
    \A req \in ParseSelector(s).items :
        LET key == TrimSpace(req.lhs)
        IN  Len(key) = 1 /\ key[1] \in allowedFieldKeys

\* (c) every requirement's operator is equality ("=", "==") or "!="
EqualityOnly(s) ==
    \A req \in ParseSelector(s).items : req.op \in Operators

\* the raw comma split and the grammar see the same requirements: no comma
\* is escaped by a backslash and no segment between commas is empty
SegmentsAreRequirements(s) ==
    /\ Len(Split(s, ",")) = Len(splitTerms(s))
    /\ \A i \in 1..Len(Split(s, ",")) : Split(s, ",")[i] # <<>>

\* C1 as stated: the predicate returns true iff the string (a) parses,
\* (b) has only allowed keys, (c) uses only = or !=, and (d) is non-empty.
C1_AsStated ==
    fsDone =>
        (fsResult <=> /\ Parses(fsValue)
                      /\ KeysAllowed(fsValue)
                      /\ EqualityOnly(fsValue)
                      /\ fsValue # <<>>)

\* C1 (amended): the predicate returns true iff the string (a) parses,
\* (b) has only allowed keys, (c) uses only = or !=, (d) is non-empty, and
\* (e) every segment between its commas is a requirement of the grammar
\* (no empty segment such as a trailing comma leaves, no escaped comma).
C1_FieldSelectorIff ==
    fsDone =>
        (fsResult <=> /\ Parses(fsValue)
                      /\ KeysAllowed(fsValue)
                      /\ EqualityOnly(fsValue)
                      /\ fsValue # <<>>
                      /\ SegmentsAreRequirements(fsValue))

\* the predicate accepted a conjunction of two requirements
C1_Witness ==
    /\ fsDone
    /\ fsResult
    /\ fsValue = <<"metadata.name", "=", "default", ",",
                   "status.phase", "!", "=", "default">>

-----------------------------------------------------------------------------
(* Goroutines calling RegisterValidation and ValidateWithTag concurrently. *)

CallRegisterValidation(g, tag, fn) ==
    /\ ~crashed
    /\ pc[g] \in {"idle", "done"}
    /\ pc' = [pc EXCEPT ![g] = "lock"]
    /\ call' = [call EXCEPT ![g] = RegisterCall(tag, fn)]
    /\ ret' = [ret EXCEPT ![g] = NilErr]
    /\ engineRet' = [engineRet EXCEPT ![g] = NotInvoked]
    /\ fnSeen' = [fnSeen EXCEPT ![g] = NoFn]
    /\ raced' = [raced EXCEPT ![g] = FALSE]
    /\ UNCHANGED <<validations, tagCache, mtx, snap, registered, crashed, Others>>

\* mtx.Lock() without waiting for the holder
LockNoWait(g) ==
    /\ ~crashed
    /\ pc[g] = "lock"
    /\ mtx' = g
    /\ pc' = [pc EXCEPT ![g] = "locked"]
    /\ registered' = IF RegisterCheck(call[g].tag, call[g].fn).type = "nil"
                     THEN [registered EXCEPT ![call[g].tag] = call[g].fn]
                     ELSE registered
    /\ UNCHANGED <<validations, tagCache, call, ret, engineRet, fnSeen, snap, raced,
                   crashed, Others>>

\* mtx.Lock()
Lock(g) ==
    /\ ~crashed
    /\ pc[g] = "lock"
    /\ mtx = NoHolder
    /\ mtx' = g
    /\ pc' = [pc EXCEPT ![g] = "locked"]
    /\ registered' = IF RegisterCheck(call[g].tag, call[g].fn).type = "nil"
                     THEN [registered EXCEPT ![call[g].tag] = call[g].fn]
                     ELSE registered
    /\ UNCHANGED <<validations, tagCache, call, ret, engineRet, fnSeen, snap, raced,
                   crashed, Others>>

\* v.RegisterValidation(tag, fn) up to the start of the map assignment
EngineRegister(g) ==
    /\ ~crashed
    /\ pc[g] = "locked"
    /\ LET err == RegisterCheck(call[g].tag, call[g].fn)
       IN  IF err.type # "nil"
           THEN /\ engineRet' = [engineRet EXCEPT ![g] = err]
                /\ ret' = [ret EXCEPT ![g] = RegisterReturn(err)]
                /\ pc' = [pc EXCEPT ![g] = "unlock"]
                /\ UNCHANGED <<snap, raced>>
           ELSE /\ snap' = [snap EXCEPT ![g] = validations]
                /\ raced' = [h \in Goroutines |-> raced[h] \/ pc[h] = "reading"]
                /\ pc' = [pc EXCEPT ![g] = "writing"]
                /\ UNCHANGED <<ret, engineRet>>
    /\ UNCHANGED <<validations, tagCache, mtx, call, fnSeen, registered,
                   crashed, Others>>

\* the end of v.validations[tag] = fn, and v.RegisterValidation returning nil
EndWrite(g) ==
    /\ ~crashed
    /\ pc[g] = "writing"
    /\ validations' = [snap[g] EXCEPT ![call[g].tag] = call[g].fn]
    /\ snap' = [snap EXCEPT ![g] = newValidator]
    /\ engineRet' = [engineRet EXCEPT ![g] = NilErr]
    /\ ret' = [ret EXCEPT ![g] = RegisterReturn(NilErr)]
    /\ pc' = [pc EXCEPT ![g] = "unlock"]
    /\ UNCHANGED <<tagCache, mtx, call, fnSeen, raced, registered,
                   crashed, Others>>

\* mtx.Unlock() as a plain statement after a successful registration
UnlockOnSuccess(g) ==
    /\ ~crashed
    /\ pc[g] = "unlock"
    /\ mtx' = IF ret[g].type = "nil" THEN NoHolder ELSE mtx
    /\ pc' = [pc EXCEPT ![g] = "done"]
    /\ UNCHANGED <<validations, tagCache, call, ret, engineRet, fnSeen, snap, raced,
                   registered, crashed, Others>>

\* the deferred mtx.Unlock(), and the return
Unlock(g) ==
    /\ ~crashed
    /\ pc[g] = "unlock"
    /\ mtx' = NoHolder
    /\ pc' = [pc EXCEPT ![g] = "done"]
    /\ UNCHANGED <<validations, tagCache, call, ret, engineRet, fnSeen, snap, raced,
                   registered, crashed, Others>>

CallValidateWithTag(g, x, tag) ==
    /\ ~crashed
    /\ pc[g] \in {"idle", "done"}
    /\ pc' = [pc EXCEPT ![g] = "fetch"]
    /\ call' = [call EXCEPT ![g] = ValidateCall(x, tag)]
    /\ ret' = [ret EXCEPT ![g] = NilErr]
    /\ engineRet' = [engineRet EXCEPT ![g] = NotInvoked]
    /\ fnSeen' = [fnSeen EXCEPT ![g] = NoFn]
    /\ raced' = [raced EXCEPT ![g] = FALSE]
    /\ UNCHANGED <<validations, tagCache, mtx, snap, registered, crashed, Others>>

\* v.Var: the lock-free look into the tag cache
FetchCacheTag(g) ==
    /\ ~crashed
    /\ pc[g] = "fetch"
    /\ IF tagCache[call[g].tag] # NoFn
       THEN /\ fnSeen' = [fnSeen EXCEPT ![g] = tagCache[call[g].tag]]
            /\ pc' = [pc EXCEPT ![g] = "run"]
       ELSE /\ pc' = [pc EXCEPT ![g] = "parse"]
            /\ UNCHANGED fnSeen
    /\ UNCHANGED <<validations, tagCache, mtx, call, ret, engineRet, snap, raced,
                   registered, crashed, Others>>

\* on a miss: take the cache's lock, look again, and start parsing the tag,
\* which reads v.validations[tag]; mtx is not taken
BeginParse(g) ==
    /\ ~crashed
    /\ pc[g] = "parse"
    /\ \A h \in Goroutines : pc[h] # "reading"
    /\ IF tagCache[call[g].tag] # NoFn
       THEN /\ fnSeen' = [fnSeen EXCEPT ![g] = tagCache[call[g].tag]]
            /\ pc' = [pc EXCEPT ![g] = "run"]
            /\ UNCHANGED raced
       ELSE /\ fnSeen' = [fnSeen EXCEPT ![g] = validations[call[g].tag]]
            /\ raced' = [raced EXCEPT ![g] = \E h \in Goroutines : pc[h] = "writing"]
            /\ pc' = [pc EXCEPT ![g] = "reading"]
    /\ UNCHANGED <<validations, tagCache, mtx, call, ret, engineRet, snap, registered, crashed, Others>>

\* what a read of v.validations[tag] can produce
ReadOutcomes(g) ==
    {fnSeen[g], validations[call[g].tag]} \cup (IF raced[g] THEN {"fatal"} ELSE {})

\* the end of the read: the parsed tag goes into the cache, or the engine
\* panics on an undefined tag, or the runtime ends the process
EndParse(g) ==
    /\ ~crashed
    /\ pc[g] = "reading"
    /\ \E f \in ReadOutcomes(g) :
          IF f = "fatal"
          THEN /\ crashed' = TRUE
               /\ UNCHANGED <<tagCache, pc, ret, fnSeen>>
          ELSE IF f = NoFn
          THEN /\ ret' = [ret EXCEPT ![g] = Panic]
               /\ pc' = [pc EXCEPT ![g] = "done"]
               /\ fnSeen' = [fnSeen EXCEPT ![g] = NoFn]
               /\ UNCHANGED <<tagCache, crashed>>
          ELSE /\ tagCache' = [tagCache EXCEPT ![call[g].tag] = f]
               /\ fnSeen' = [fnSeen EXCEPT ![g] = f]
               /\ pc' = [pc EXCEPT ![g] = "run"]
               /\ UNCHANGED <<ret, crashed>>
    /\ raced' = [raced EXCEPT ![g] = FALSE]
    /\ UNCHANGED <<validations, mtx, call, engineRet, snap, registered, Others>>

\* the engine runs the resolved predicate; the facade formats the outcome
RunValidation(g) ==
    /\ ~crashed
    /\ pc[g] = "run"
    /\ ret' = [ret EXCEPT ![g] = ValidateResolved(call[g].x, call[g].tag, fnSeen[g])]
    /\ fnSeen' = [fnSeen EXCEPT ![g] = NoFn]
    /\ pc' = [pc EXCEPT ![g] = "done"]
    /\ UNCHANGED <<validations, tagCache, mtx, call, engineRet, snap, raced, registered, crashed, Others>>

\* the calls the goroutines make: registrations of the user tags, one tag
\* with either predicate, one with an empty tag name and one with a nil
\* predicate; validations of each user tag
ConcurrentRegistrations ==
    { <<"is-even", "isEven">>, <<"is-even", "isOdd">>, <<"is-odd", "isOdd">>,
      <<"", "isEven">>, <<"is-even", NilFn>> }

ConcurrentValidations == { <<2, "is-even">>, <<2, "is-odd">> }

Init == RegIdle /\ FSIdle /\ UrlIdle /\ VIdle

Next ==
    \E g \in Goroutines :
        \/ \E a \in ConcurrentRegistrations : CallRegisterValidation(g, a[1], a[2])
        \/ Lock(g)
        \/ EngineRegister(g)
        \/ EndWrite(g)
        \/ Unlock(g)
        \/ \E a \in ConcurrentValidations : CallValidateWithTag(g, a[1], a[2])
        \/ FetchCacheTag(g)
        \/ BeginParse(g)
        \/ EndParse(g)
        \/ RunValidation(g)

Spec == Init /\ [][Next]_vars

-----------------------------------------------------------------------------
(* One goroutine calling RegisterValidation and ValidateWithTag in turn:   *)
(* each action is a whole call.                                            *)

\* RegisterValidation(tag, fn): lock, v.RegisterValidation, deferred unlock
SeqRegisterValidation(tag, fn) ==
    /\ ~crashed
    /\ mtx = NoHolder
    /\ LET err == RegisterCheck(tag, fn)
       IN  /\ validations' = IF err.type = "nil"
                             THEN [validations EXCEPT ![tag] = fn] ELSE validations
           /\ engineRet' = [engineRet EXCEPT ![1] = err]
           /\ ret' = [ret EXCEPT ![1] = RegisterReturn(err)]
           /\ registered' = IF err.type = "nil"
                            THEN [registered EXCEPT ![tag] = fn] ELSE registered
    /\ call' = [call EXCEPT ![1] = RegisterCall(tag, fn)]
    /\ pc' = [pc EXCEPT ![1] = "done"]
    /\ UNCHANGED <<tagCache, mtx, fnSeen, snap, raced, crashed, Others>>

\* ValidateWithTag(x, tag): the cached tag if there is one, else the tag
\* parsed against the registry and cached; then the predicate is run
SeqValidateWithTag(x, tag) ==
    /\ ~crashed
    /\ LET fn == IF tagCache[tag] # NoFn THEN tagCache[tag] ELSE validations[tag]
       IN  IF fn = NoFn
           THEN /\ ret' = [ret EXCEPT ![1] = Panic]
                /\ UNCHANGED tagCache
           ELSE /\ ret' = [ret EXCEPT ![1] = ValidateResolved(x, tag, fn)]
                /\ tagCache' = [tagCache EXCEPT ![tag] = fn]
    /\ engineRet' = [engineRet EXCEPT ![1] = NotInvoked]
    /\ call' = [call EXCEPT ![1] = ValidateCall(x, tag)]
    /\ pc' = [pc EXCEPT ![1] = "done"]
    /\ UNCHANGED <<validations, mtx, fnSeen, snap, raced, registered, crashed,
                   Others>>

NextSeq ==
    \/ \E tag \in RegisterTags, fn \in UserFns \cup {NilFn} : SeqRegisterValidation(tag, fn)
    \/ \E x \in IntValues, tag \in UserTags : SeqValidateWithTag(x, tag)

SpecSeq == Init /\ [][NextSeq]_vars

-----------------------------------------------------------------------------
(* The README's list of allowed field keys. *)

readmeFieldKeys ==
    { "metadata.name", "metadata.namespace", "status.phase", "spec.nodeName",
      "spec.unschedulable", "status.hostIP", "status.podIP", "spec.type" }

\* key = value or key != value, key and value one word each
IsKeyOpValue(s) ==
    /\ Len(s) \in {3, 4}
    /\ s[1] \notin Specials
    /\ s[Len(s)] \notin Specials
    /\ SubSeq(s, 2, Len(s) - 1) \in { <<"=">>, <<"!", "=">> }

\* C6 as stated: a requirement key = value or key != value is accepted when
\* its key is one of the eight keys the README lists, and rejected when its
\* key is none of them.
C6_AsStated ==
    (fsDone /\ IsKeyOpValue(fsValue)) => (fsResult <=> fsValue[1] \in readmeFieldKeys)

-----------------------------------------------------------------------------
(* ValidateStruct and ValidateWithTag. *)

InputIsNil == ErrorString(<<Lit("input is nil")>>)

InputIsNilPointer == ErrorString(<<Lit("input is a nil pointer")>>)

\* C4: ValidateStruct(nil) returns "input is nil" and ValidateStruct of a
\* typed nil pointer returns "input is a nil pointer", both without the
\* rule engine being invoked; an untyped nil always gets "input is nil".
C4_NilInputs ==
    (vDone /\ vIn.op = "ValidateStruct") =>
        /\ vIn.s.untypedNil => (vRet = InputIsNil /\ vEngine = NotInvoked)
        /\ (~vIn.s.untypedNil /\ vIn.s.kind = "ptr" /\ vIn.s.ptrIsNil)
              => (vRet = InputIsNilPointer /\ vEngine = NotInvoked)

\* ValidateStruct returned on a typed nil pointer
C4_Witness ==
    /\ vDone
    /\ vIn.op = "ValidateStruct"
    /\ vIn.s = Pointer("struct", TRUE, <<>>)
    /\ vRet = InputIsNilPointer

\* the input is a struct or a non-nil pointer to one
IsStructInput(s) ==
    \/ s.kind = "struct"
    \/ s.kind = "ptr" /\ ~s.ptrIsNil /\ s.elemKind = "struct"

\* the rules the struct violates, as <<field, rule>> positions
ViolatedRules(s) ==
    { ij \in (1..Len(s.fields)) \X (1..(MaxRules + 1)) :
        /\ ij[2] <= Len(s.fields[ij[1]].rules)
        /\ ~s.fields[ij[1]].rules[ij[2]].ok }

FailingFields(s) == { i \in 1..Len(s.fields) : \E ij \in ViolatedRules(s) : ij[1] = i }

\* declaration order: by field, then by rule within the field's tag
Before(a, b) == a[1] < b[1] \/ (a[1] = b[1] /\ a[2] < b[2])

Rank(S, a) == Cardinality({ b \in S : Before(b, a) }) + 1

EntryFor(s, ij) ==
    LET f == s.fields[ij[1]]
    IN  Fmt("%s (%s=%s)", <<s.name \o "." \o f.name, f.rules[ij[2]].tag,
                                f.rules[ij[2]].param>>)

\* the message is the prefix, then one entry for each element of S in
\* declaration order, joined by ", "
Enumerates(msg, s, S) ==
    /\ Len(msg) = 2 * Cardinality(S)
    /\ msg[1] = Lit("validation failed: ")
    /\ \A ij \in S : msg[2 * Rank(S, ij)] = EntryFor(s, ij)
    /\ \A k \in 1..(Cardinality(S) - 1) : msg[2 * k + 1] = Lit(", ")

\* C5 as stated: on a struct violating N >= 1 tag rules, ValidateStruct
\* returns one error enumerating all N violated rules in declaration order.
C5_AsStated ==
    (vDone /\ vIn.op = "ValidateStruct" /\ IsStructInput(vIn.s)
       /\ ViolatedRules(vIn.s) # {}) =>
        /\ vRet.type # "nil"
        /\ Enumerates(vRet.msg, vIn.s, ViolatedRules(vIn.s))

\* the first violated rule of every failing field
FirstViolations(s) ==
    { ij \in ViolatedRules(s) : \A kl \in ViolatedRules(s) : kl[1] = ij[1] => ij[2] <= kl[2] }

\* C5 (amended): on a struct with N >= 1 failing fields, ValidateStruct
\* returns one error whose message is "validation failed: " followed by N
\* entries, one per failing field and naming the first rule of its tag the
\* field violates, in field declaration order, joined by ", ".
C5_OneEntryPerFailingField ==
    (vDone /\ vIn.op = "ValidateStruct" /\ IsStructInput(vIn.s)
       /\ ViolatedRules(vIn.s) # {}) =>
        /\ vRet.type # "nil"
        /\ Cardinality(FirstViolations(vIn.s)) = Cardinality(FailingFields(vIn.s))
        /\ Enumerates(vRet.msg, vIn.s, FirstViolations(vIn.s))

\* two fields failed, the first one on two rules
C5_Witness ==
    /\ vDone
    /\ vIn.op = "ValidateStruct"
    /\ IsStructInput(vIn.s)
    /\ Cardinality(FailingFields(vIn.s)) = 2
    /\ {<<1, 1>>, <<1, 2>>} \subseteq ViolatedRules(vIn.s)
    /\ Len(vRet.msg) = 4

\* C10: an engine error is never swallowed; the facade's error starts with
\* "validation failed: " iff the engine's error is the validation-failure
\* type, and is "unexpected validation error: " followed by the engine's
\* message otherwise; ValidateStruct on a non-nil non-struct is the latter.
C10_EngineErrorSurfaced ==
    /\ (vDone /\ vEngine.type \notin {"nil", "notInvoked"}) =>
          /\ vRet.type # "nil"
          /\ Len(vRet.msg) >= 1
          /\ (vRet.msg[1] = Lit("validation failed: "))
                <=> (vEngine.type = "ValidationErrors")
          /\ vEngine.type # "ValidationErrors"
                => vRet.msg = <<Lit("unexpected validation error: ")>> \o vEngine.msg
    /\ (vDone /\ vIn.op = "ValidateStruct" /\ ~vIn.s.untypedNil
          /\ ~(vIn.s.kind = "ptr" /\ vIn.s.ptrIsNil) /\ ~IsStructInput(vIn.s)) =>
          /\ vEngine.type = "InvalidValidationError"
          /\ vRet.type # "nil"
          /\ vRet.msg[1] = Lit("unexpected validation error: ")

\* ValidateStruct(1) returned "unexpected validation error: validator: (nil int)"
C10_Witness ==
    /\ vDone
    /\ vIn.op = "ValidateStruct"
    /\ vIn.s = IntValue
    /\ vRet.msg = <<Lit("unexpected validation error: "),
                    Fmt("validator: (nil %s)", <<"int">>)>>

-----------------------------------------------------------------------------
(* The url_prefix predicate through ValidateWithTag. *)

\* the string starts with http:// or https://, spelled out
StartsWithScheme(s) ==
    /\ Len(s) >= 7
    /\ s[1] = "h" /\ s[2] = "t" /\ s[3] = "t" /\ s[4] = "p"
    /\ \/ s[5] = ":" /\ s[6] = "/" /\ s[7] = "/"
       \/ Len(s) >= 8 /\ s[5] = "s" /\ s[6] = ":" /\ s[7] = "/" /\ s[8] = "/"

\* C9: the url_prefix predicate returns true iff the string starts with
\* "http://" or "https://"; ValidateWithTag(s, "url_prefix") returns nil
\* exactly then, and otherwise an error naming the tag url_prefix.
C9_UrlPrefix ==
    urlDone =>
        /\ urlResult <=> StartsWithScheme(urlValue)
        /\ (urlRet.type = "nil") <=> StartsWithScheme(urlValue)
        /\ ~StartsWithScheme(urlValue) =>
              urlRet.msg = <<Lit("validation failed: "),
                             Fmt("%s %s (%s=%s)",
                                 <<"string", urlValue, "url_prefix", "">>)>>

\* an https URL was accepted
C9_Witness ==
    /\ urlDone
    /\ urlValue = HttpsPrefix \o <<"x">>
    /\ urlResult
    /\ urlRet = NilErr

-----------------------------------------------------------------------------
(* The shared validator under concurrent calls. *)

\* a validation is reading v.validations while a registration writes it
DataRace ==
    \E g \in Goroutines, h \in Goroutines : pc[g] = "reading" /\ pc[h] = "writing"

\* C2 as stated: no validation call reads the validator's registrations
\* while a RegisterValidation call is in the middle of writing them.
C2_AsStated == ~DataRace

\* the goroutines between mtx.Lock() and mtx.Unlock()
InRegistration == { g \in Goroutines : pc[g] \in {"locked", "writing", "unlock"} }

\* C3: RegisterValidation calls are serialized by mtx: at most one is
\* inside the engine's registration update, and it holds mtx; and no
\* registration is lost: unless a call holding mtx is about to write the
\* tag, every tag maps to the predicate of the last accepted registration
\* of that tag, in the order the calls took mtx.
C3_Serialized ==
    /\ Cardinality(InRegistration) <= 1
    /\ \A g \in InRegistration : mtx = g
    /\ \A t \in UserTags :
          (\A g \in Goroutines : ~(pc[g] \in {"locked", "writing"} /\ call[g].tag = t))
              => validations[t] = registered[t]

\* two goroutines registered different tags, both calls returned nil and
\* both registrations are in force
C3_Witness ==
    /\ pc[1] = "done" /\ pc[2] = "done"
    /\ call[1] = RegisterCall("is-even", "isOdd")
    /\ call[2] = RegisterCall("is-odd", "isOdd")
    /\ ret[1].type = "nil" /\ ret[2].type = "nil"
    /\ validations["is-even"] = "isOdd"
    /\ validations["is-odd"] = "isOdd"

-----------------------------------------------------------------------------
(* Registration followed by validation, one call after the other. *)

\* C7 as stated: once RegisterValidation(t, p) returned nil, a later
\* ValidateWithTag(x, t) returns nil if p(x) and an error naming t if not,
\* whatever was registered or validated before (p being the predicate of
\* the last registration of t that returned nil).
C7_AsStated ==
    (/\ pc[1] = "done"
     /\ call[1].op = "ValidateWithTag"
     /\ registered[call[1].tag] # NoFn) =>
        LET p == registered[call[1].tag]
            x == call[1].x
        IN  IF Apply(p, x) THEN ret[1] = NilErr
            ELSE ret[1].msg = <<Lit("validation failed: "),
                                Fmt("%s %s (%s=%s)", <<"int", x, call[1].tag, "">>)>>

\* the last call was a RegisterValidation with an empty tag or a nil predicate
RejectedRegistration(c) ==
    c.op = "RegisterValidation" /\ (c.tag = "" \/ c.fn = NilFn)

\* C8: RegisterValidation with an empty tag name or a nil predicate returns
\* a non-nil error that is the rule engine's own error, unmodified, and
\* leaves the registered tags and predicates as they were.
C8_RejectedRegistration ==
    [][ RejectedRegistration(call'[1]) =>
          /\ ret'[1].type # "nil"
          /\ engineRet'[1].type = "errorString"
          /\ ret'[1] = engineRet'[1]
          /\ validations' = validations
          /\ registered' = registered ]_vars

\* a registration with an empty tag name was refused after another one
\* had succeeded
C8_Witness ==
    /\ pc[1] = "done"
    /\ call[1] = RegisterCall("", "isEven")
    /\ ret[1] = ErrorString(<<Lit("function Key cannot be empty")>>)
    /\ validations["is-even"] = "isEven"

-----------------------------------------------------------------------------
(* The raw comma split of the field-selector predicate. *)

\* some segment between two commas of the raw string (or a comma and an end
\* of the string) holds no "=", hence neither "=" nor "!="
NoOperatorSegment(s) ==
    \E a \in 0..Len(s), b \in 1..(Len(s) + 1) :
        /\ a < b
        /\ a = 0 \/ s[a] = ","
        /\ b = Len(s) + 1 \/ s[b] = ","
        /\ \A i \in (a + 1)..(b - 1) : s[i] \notin {",", "="}

\* C11: the predicate fails closed on the raw comma split: for a non-empty
\* value that passes the grammar pre-check, if some segment of the raw
\* split on "," contains neither "!=" nor "=", the predicate returns
\* false, whatever the other segments are.
C11_FailsClosed ==
    (fsDone /\ fsValue # <<>> /\ Parses(fsValue) /\ NoOperatorSegment(fsValue))
        => ~fsResult

\* a selector with an allowed key and a trailing comma passed the grammar
\* and was rejected
C11_Witness ==
    /\ fsDone
    /\ fsValue = <<"metadata.name", "=", "spec.type", ",">>
    /\ Parses(fsValue)
    /\ NoOperatorSegment(fsValue)
    /\ ~fsResult

-----------------------------------------------------------------------------
(* Goroutines calling RegisterValidation only, under fair scheduling: a    *)
(* goroutine inside a call keeps running, and sync.Mutex hands the lock to *)
(* a goroutine that keeps waiting for it.                                  *)

\* accepted registrations, one with an empty tag name, one with a nil
\* predicate and one with a tag name the engine panics on
RegistrationCalls ==
    { <<"is-even", "isEven">>, <<"is-odd", "isOdd">>, <<"", "isEven">>,
      <<"is-even", NilFn>>, <<"dive", "isEven">> }

NextReg ==
    \E g \in Goroutines :
        \/ \E a \in RegistrationCalls : CallRegisterValidation(g, a[1], a[2])
        \/ Lock(g)
        \/ EngineRegister(g)
        \/ EndWrite(g)
        \/ Unlock(g)

Fairness ==
    \A g \in Goroutines :
        /\ SF_vars(Lock(g))
        /\ WF_vars(EngineRegister(g))
        /\ WF_vars(EndWrite(g))
        /\ WF_vars(Unlock(g))

SpecReg == Init /\ [][NextReg]_vars /\ Fairness

\* mtx is held only by a goroutine between its Lock and its Unlock
MutexFreeWhenIdle ==
    /\ mtx # NoHolder => mtx \in InRegistration
    /\ InRegistration = {} => mtx = NoHolder

\* C12: RegisterValidation releases mtx on every path out of the call, the
\* engine's error and the engine's panic included: the mutex is free
\* whenever no call is between Lock and Unlock, and under fair scheduling
\* every call that started is eventually over (so a failed registration
\* never blocks a later one).
C12_MutexReleased ==
    /\ []MutexFreeWhenIdle
    /\ \A g \in Goroutines : (pc[g] = "lock") ~> (pc[g] = "done")

\* a registration with an empty tag name got the engine's error, and the
\* other goroutine holds the mutex for its own registration
C12_Witness ==
    /\ pc[1] = "done"
    /\ call[1] = RegisterCall("", "isEven")
    /\ ret[1].type = "errorString"
    /\ pc[2] = "locked"
    /\ mtx = 2

=============================================================================
